---------------------------- MODULE Spec2Model ----------------------------
(***************************************************************************)
(* Model of return_metrics.ReturnMetrics (src/src/return_metrics/          *)
(* return_metrics.py): a fluent accumulator of per-asset statistics.       *)
(*                                                                         *)
(* Objects live in a heap of tables (pandas DataFrames holding results);   *)
(* an accumulator is a record holding its input table, its annualization   *)
(* factor and the heap id of its result table.  copy(deep=True) allocates  *)
(* a new heap object with equal contents.                                  *)
(*                                                                         *)
(* Numbers.  Returns are multiples of 1/Scale = 0.25, so that every        *)
(* cumulative product, difference and comparison the code performs in      *)
(* binary floating point is exact; the model's integer arithmetic is then  *)
(* the code's arithmetic.  A stored value is a record [tag, num, den, k,   *)
(* of]: tag "num" is the rational num/den, "nan" is NaN, "date" is the     *)
(* index label num, "nat" is a missing label (None -> NaT/NaN); "std",     *)
(* "skew", "kurtosis" and "sharpe" are the library's reductions of the     *)
(* column `of`, kept as terms (their arguments are kept exactly).          *)
(***************************************************************************)
EXTENDS Integers, Sequences, FiniteSets, TLC

VARIABLES
    heap,     \* table id -> table contents [rows, cols]
    accs,     \* accumulator id -> [data, annualization, results, parent]
    user,     \* ids of tables the caller holds directly (seeds, exports)
    last      \* the last operation and its outcome

vars == <<heap, accs, user, last>>

---------------------------------------------------------------------------
(* Bounds and units *)

\* Largest number of live objects (tables + accumulators' tables) in a run.
MaxObjs == 4
\* Longest input return series drawn in the series specifications.
MaxLen == 5
\* Returns are integers in units of 1/Scale.
Scale == 2 * 2
\* Return values drawn for the series: -1.5, -1.0, -0.25, 0.0, +0.25.
Returns == {-6, -4, -1, 0, 1}

---------------------------------------------------------------------------
(* Values *)

Q(n, d) == [tag |-> "num", num |-> n, den |-> d, k |-> 0, of |-> <<>>]
NaN == [tag |-> "nan", num |-> 0, den |-> 0, k |-> 0, of |-> <<>>]
Date(l) == [tag |-> "date", num |-> l, den |-> 1, k |-> 0, of |-> <<>>]
NaT == [tag |-> "nat", num |-> 0, den |-> 0, k |-> 0, of |-> <<>>]
Term(t, n, d, kk, s) == [tag |-> t, num |-> n, den |-> d, k |-> kk, of |-> s]

\* x <= y for two "num" values with positive denominators.
LeqQ(x, y) == x.num * y.den <= y.num * x.den

RECURSIVE Pow(_, _)
Pow(b, e) == IF e = 0 THEN 1 ELSE b * Pow(b, e - 1)

RECURSIVE SumSeq(_)
SumSeq(s) == IF s = <<>> THEN 0 ELSE Head(s) + SumSeq(Tail(s))

\* The assets of an input table, as the set of its column names.
Assets(data) == {data.names[i] : i \in 1..Len(data.names)}

---------------------------------------------------------------------------
(* Result tables (pandas DataFrame): rows = asset names, cols = the
   insertion-ordered columns, each a name and one value per row. *)

RowSet(t) == {t.rows[i] : i \in 1..Len(t.rows)}
ColNames(t) == {t.cols[i].name : i \in 1..Len(t.cols)}
ColIdx(t, name) == CHOOSE i \in 1..Len(t.cols) : t.cols[i].name = name
Col(t, name) == t.cols[ColIdx(t, name)].val
CountCol(t, name) == Cardinality({i \in 1..Len(t.cols) : t.cols[i].name = name})

\* pd.DataFrame(index=data.columns): no columns, one row per asset.
EmptyFrame(data) == [rows |-> data.names, cols |-> <<>>]

\* DataFrame.copy(deep=True): a new object whose rows, column order and
\* cell values are rebuilt from the original's.
DeepCopy(t) ==
    [rows |-> [i \in 1..Len(t.rows) |-> t.rows[i]],
     cols |-> [i \in 1..Len(t.cols) |->
                 [name |-> t.cols[i].name,
                  val  |-> [r \in DOMAIN t.cols[i].val |-> t.cols[i].val[r]]]]]

\* A frame[name] = series under which an existing column keeps its values
\* (first write wins).
SetItemKeep(t, name, series) ==
    IF name \in ColNames(t) THEN t
    ELSE [t EXCEPT !.cols = Append(t.cols,
              [name |-> name,
               val  |-> [r \in RowSet(t) |->
                           IF r \in DOMAIN series THEN series[r] ELSE NaN]])]

\* frame[name] = series: the series is aligned on the frame's rows (a row
\* the series lacks gets NaN); an existing column keeps its position and
\* gets the new values, a new name is appended as the last column.
SetItem(t, name, series) ==
    LET col == [name |-> name,
                val  |-> [r \in RowSet(t) |->
                            IF r \in DOMAIN series THEN series[r] ELSE NaN]]
    IN  IF name \in ColNames(t)
        THEN [t EXCEPT !.cols[ColIdx(t, name)] = col]
        ELSE [t EXCEPT !.cols = Append(t.cols, col)]

\* ReturnMetrics.__init__: the result table an instance holds.
InitResults(data, seedGiven, seed) ==
    IF seedGiven THEN DeepCopy(seed) ELSE EmptyFrame(data)

\* A _with_column that starts from an empty table instead of the copy.
WithColumnFresh(V, name, series) ==
    InitResults(V.data, TRUE, SetItem(EmptyFrame(V.data), name, series))

\* _with_column: copy the receiver's results, set the column, construct.
WithColumn(V, name, series) ==
    InitResults(V.data, TRUE, SetItem(DeepCopy(V.tab), name, series))

\* _with_columns: the same for a dict of columns, in insertion order.
RECURSIVE SetItems(_, _)
SetItems(t, items) ==
    IF items = <<>> THEN t
    ELSE SetItems(SetItem(t, items[1].name, items[1].val), Tail(items))

WithColumns(V, items) ==
    InitResults(V.data, TRUE, SetItems(DeepCopy(V.tab), items))

---------------------------------------------------------------------------
(* Column-wise reductions of the input table. *)

\* data.mean() * annualization
MeanCol(s, ann) == Q(SumSeq(s) * ann, Len(s) * Scale)

\* data.std() * annualization**0.5 (sample std: NaN below two rows)
StdCol(s, ann) == IF Len(s) < 2 THEN NaN ELSE Term("std", ann, 1, 0, s)

\* data.skew() (bias-corrected: NaN below three rows)
SkewCol(s) == IF Len(s) < 3 THEN NaN ELSE Term("skew", 0, 1, 0, s)

\* data.kurtosis() (bias-corrected excess: NaN below four rows)
KurtosisCol(s) == IF Len(s) < 4 THEN NaN ELSE Term("kurtosis", 0, 1, 0, s)

\* (data.mean() - rf / annualization) / data.std() * annualization**0.5
SharpeCol(s, rf, ann) ==
    IF Len(s) < 2 THEN NaN
    ELSE Term("sharpe", SumSeq(s) * ann - rf * Len(s), Len(s) * Scale * ann,
              ann, s)

\* The k-th smallest value of s (k = 1..Len(s)).
OrderStat(s, k) ==
    CHOOSE v \in {s[i] : i \in 1..Len(s)} :
        /\ Cardinality({i \in 1..Len(s) : s[i] < v}) < k
        /\ Cardinality({i \in 1..Len(s) : s[i] <= v}) >= k

\* data.quantile(q), q = q[1]/q[2]: linear interpolation between the order
\* statistics around position (n-1)q.
QuantileCol(s, q) ==
    LET h   == (Len(s) - 1) * q[1]
        lo  == h \div q[2]
        rem == h % q[2]
        xlo == OrderStat(s, lo + 1)
        xhi == IF rem = 0 THEN xlo ELSE OrderStat(s, lo + 2)
    IN  Q(xlo * q[2] + rem * (xhi - xlo), q[2] * Scale)

---------------------------------------------------------------------------
(* max_drawdown, per column s (returns in units of 1/Scale). *)

\* (1 + data).cumprod(): wealth after each step, as numerators over the
\* common denominator Scale^Len(s).
Cumprod(s) ==
    LET n == Len(s)
        cp[t \in 0..n] == IF t = 0 THEN 1 ELSE cp[t - 1] * (Scale + s[t])
    IN  [t \in 1..n |-> cp[t] * Pow(Scale, n - t)]

\* A running peak frozen at the first step.
CummaxFirst(c) == [t \in 1..Len(c) |-> c[1]]

\* cumulative.cummax(): the running peak.
Cummax(c) ==
    LET m[t \in 1..Len(c)] ==
            IF t = 1 THEN c[1]
            ELSE IF c[t] > m[t - 1] THEN c[t] ELSE m[t - 1]
    IN  [t \in 1..Len(c) |-> m[t]]

\* (cumulative - peak) / peak at one step: 0/0 is NaN; otherwise the
\* quotient, kept with a positive denominator.
Quot(num, den) ==
    IF den = 0 THEN NaN
    ELSE IF den < 0 THEN Q(-num, -den) ELSE Q(num, den)

Drawdown(c, p) == [t \in 1..Len(c) |-> Quot(c[t] - p[t], p[t])]

Valid(dd) == {t \in 1..Len(dd) : dd[t].tag = "num"}

\* Series.idxmin() (NaN skipped): the first position of the smallest
\* value; 0 when every value is NaN (the library then has no label).
IdxMin(dd) ==
    IF Valid(dd) = {} THEN 0
    ELSE CHOOSE t \in Valid(dd) :
            /\ \A u \in Valid(dd) : LeqQ(dd[t], dd[u])
            /\ \A u \in Valid(dd) : u < t => ~LeqQ(dd[u], dd[t])

\* drawdown.min() (NaN skipped; NaN when every value is NaN).
MinDD(dd) == IF Valid(dd) = {} THEN NaN ELSE dd[IdxMin(dd)]

\* An idxmax that returns the last position of the largest value.
IdxMaxLast(c, W) ==
    CHOOSE t \in W : /\ \A u \in W : c[u] <= c[t]
                     /\ \A u \in W : u > t => c[u] < c[t]

\* Series.idxmax() over the positions W: the first position of the
\* largest value.
IdxMax(c, W) ==
    CHOOSE t \in W : /\ \A u \in W : c[u] <= c[t]
                     /\ \A u \in W : u < t => c[u] < c[t]

\* cumulative[col][:trough_date]: a slice by label includes its end (a
\* datetime index, "label"); a slice by integers is positional and
\* excludes it (an integer index 0..n-1, "position").
SliceTo(idx, trough) ==
    IF idx = "label" THEN 1..trough ELSE 1..(trough - 1)

\* A recovery search over the whole series.
SliceFromStart(n, trough) == 1..n

\* cumulative[col][trough_date:]: from the trough on, under either index.
SliceFrom(n, trough) == trough..n

\* .loc[cumulative[col] >= peak[col][peak_date]].first_valid_index():
\* the first position of the slice whose wealth reaches the level; 0 when
\* none does (None).
FirstReached(c, W, level) ==
    IF \E t \in W : c[t] >= level
    THEN CHOOSE t \in W : c[t] >= level /\ \A u \in W : u < t => c[u] < level
    ELSE 0

\* The loop body of max_drawdown(details=True) for one column with wealth
\* c, running peak p and trough position trough: the positions (1-based)
\* of peak, trough and recovery, and the exceptions the column can end in.
\* An all-NaN drawdown has no idxmin (ValueError, or a NaN label that the
\* slice rejects with TypeError, by library version); an empty slice has
\* no idxmax (ValueError).
PeakToRecovery(c, p, trough, W) ==
    IF trough = 0
    THEN [errs |-> {"ValueError", "TypeError"},
          peak |-> 0, trough |-> 0, recovery |-> 0]
    ELSE IF W = {}
    THEN [errs |-> {"ValueError"},
          peak |-> 0, trough |-> trough, recovery |-> 0]
    ELSE [errs |-> {}, peak |-> IdxMax(c, W), trough |-> trough,
          recovery |-> FirstReached(c, SliceFrom(Len(c), trough),
                                    p[IdxMax(c, W)])]

\* What max_drawdown computes for one column: the minimum drawdown, and
\* the details of the loop body.
ColumnDrawdown(c, p, dd, idx) ==
    [min |-> MinDD(dd),
     det |-> PeakToRecovery(c, p, IdxMin(dd), SliceTo(idx, IdxMin(dd)))]

WithPeak(c, p, idx) == ColumnDrawdown(c, p, Drawdown(c, p), idx)
WithWealth(c, idx) == WithPeak(c, Cummax(c), idx)
Details(s, idx) == WithWealth(Cumprod(s), idx)

\* The index label of a position (time steps are labelled 0..n-1); None is
\* stored as a missing label.
Label(pos) == IF pos = 0 THEN NaT ELSE Date(pos - 1)

---------------------------------------------------------------------------
(* The statistic methods, as functions of the receiver V = [data,
   annualization, tab] (tab: the contents of its result table).  Each has
   the result table of the instance it returns (XOp) and the exceptions it
   can end in instead (XErrs; none: it returns). *)

View(A, tab) == [data |-> A.data, annualization |-> A.annualization, tab |-> tab]
NoErrs == {}

MeanOp(V, name) ==
    WithColumn(V, name,
               [c \in Assets(V.data) |-> MeanCol(V.data.series[c], V.annualization)])

StdOp(V, name) ==
    WithColumn(V, name,
               [c \in Assets(V.data) |-> StdCol(V.data.series[c], V.annualization)])

SkewOp(V, name) == WithColumn(V, name, [c \in Assets(V.data) |-> SkewCol(V.data.series[c])])

KurtosisOp(V, name) == WithColumn(V, name, [c \in Assets(V.data) |-> KurtosisCol(V.data.series[c])])

VaROp(V, q, name) ==
    WithColumn(V, name, [c \in Assets(V.data) |-> QuantileCol(V.data.series[c], q)])

\* self.data <= self.data.quantile(q): a boolean table, one cell per
\* return (two-dimensional, whatever the number of columns).
TailMask(data, q) ==
    [c \in Assets(data) |->
        [t \in 1..Len(data.series[c]) |->
            LeqQ(Q(data.series[c][t], Scale), QuantileCol(data.series[c], q))]]

\* DataFrame.loc[key] with a boolean DataFrame as key: .loc takes a
\* one-dimensional boolean key only and refuses a table ("Cannot index
\* with multidimensional key"): nothing is selected.
LocByFrame(data, mask) ==
    [errs |-> {"ValueError"},
     series |-> [c \in Assets(data) |-> <<>>]]

CVaRErrs(V, q) == LocByFrame(V.data, TailMask(V.data, q)).errs

\* The mean of what .loc selected, stored when it selected something.
CVaROp(V, q, name) ==
    LET sel == LocByFrame(V.data, TailMask(V.data, q))
    IN  WithColumn(V, name,
            [c \in Assets(V.data) |->
                IF sel.series[c] = <<>> THEN NaN
                ELSE Q(SumSeq(sel.series[c]), Len(sel.series[c]) * Scale)])

SharpeOp(V, rf, name) ==
    WithColumn(V, name,
               [c \in Assets(V.data) |-> SharpeCol(V.data.series[c], rf, V.annualization)])

\* f"{name}_peak_date" and its siblings.
Suffixed(name, suffix) == name \o suffix

\* The loop over the columns, in their order: the first column that fails
\* ends the call.
DetailsOf(data) ==
    [c \in Assets(data) |-> Details(data.series[c], data.idx)]

FirstFailure(names, D) ==
    LET failing == {i \in 1..Len(names) : D[names[i]].det.errs # {}}
    IN  IF failing = {} THEN {}
        ELSE D[names[CHOOSE i \in failing : \A j \in failing : i <= j]].det.errs

\* A max_drawdown that checks data_type after computing.
MaxDrawdownErrsLate(V, details, data_type) ==
    IF details /\ FirstFailure(V.data.names, DetailsOf(V.data)) # {}
    THEN FirstFailure(V.data.names, DetailsOf(V.data))
    ELSE IF data_type = "prices" THEN {"NotImplementedError"}
    ELSE {}

MaxDrawdownErrs(V, details, data_type) ==
    IF data_type = "prices" THEN {"NotImplementedError"}
    ELSE IF details THEN FirstFailure(V.data.names, DetailsOf(V.data))
    ELSE {}

\* new_data: the statistic, then the three date columns when asked for.
NewData(name, D, details) ==
    LET maxdd == [name |-> name, val |-> [c \in DOMAIN D |-> D[c].min]]
        dates == << [name |-> Suffixed(name, "_peak_date"),
                     val  |-> [c \in DOMAIN D |-> Label(D[c].det.peak)]],
                    [name |-> Suffixed(name, "_trough_date"),
                     val  |-> [c \in DOMAIN D |-> Label(D[c].det.trough)]],
                    [name |-> Suffixed(name, "_recovery_date"),
                     val  |-> [c \in DOMAIN D |-> Label(D[c].det.recovery)]] >>
    IN  IF details THEN <<maxdd>> \o dates ELSE <<maxdd>>

MaxDrawdownOp(V, name, details, data_type) ==
    WithColumns(V, NewData(name, DetailsOf(V.data), details))

\* The column names a max_drawdown call writes.
DateNames(name) ==
    {Suffixed(name, "_peak_date"), Suffixed(name, "_trough_date"),
     Suffixed(name, "_recovery_date")}
OutNames(name, details) ==
    IF details THEN {name} \cup DateNames(name) ELSE {name}

\* a.f(): the instance f returned, as a receiver.
On(V, tab) == [V EXCEPT !.tab = tab]

\* self.mean().std().sharpe()
BasicStatsOp(V) ==
    SharpeOp(On(V, StdOp(On(V, MeanOp(V, "mean")), "std")), 0, "sharpe")

\* self.VaR(quantile).CVaR(quantile)
TailRiskErrs(V, q) == CVaRErrs(On(V, VaROp(V, q, "VaR")), q)
TailRiskOp(V, q) == CVaROp(On(V, VaROp(V, q, "VaR")), q, "CVaR")

---------------------------------------------------------------------------
(* Attribute access *)

_proxy == {"head", "tail", "shape", "columns", "index", "dtypes", "T",
           "info", "describe", "to_csv", "to_excel", "to_dict", "to_json",
           "to_numpy"}

\* Names accessed in the runs: the allow-list, three other attributes every
\* DataFrame has, a _repr_ hook a DataFrame has and one it lacks.
AttrNames == _proxy \cup {"loc", "drop", "values", "_repr_html_", "_repr_png_"}
FrameAttrs == AttrNames \ {"_repr_png_"}
ReprPrefixed == {"_repr_html_", "_repr_png_"}

\* getattr(table, name): the attribute of that table (its value is a
\* function of the name and the table's contents).
FrameAttr(tab, name) == [attr |-> name, of |-> tab]
NoVal == [attr |-> "", of |-> [rows |-> <<>>, cols |-> <<>>]]

\* What some attributes evaluate to.
Shape(v) == <<Len(v.of.rows), Len(v.of.cols)>>
Columns(v) == [i \in 1..Len(v.of.cols) |-> v.of.cols[i].name]

\* A __getattr__ that forwards every attribute the table has.
GetAttrForwardAll(tab, name) ==
    IF name \in FrameAttrs
    THEN [errs |-> {}, val |-> FrameAttr(tab, name)]
    ELSE [errs |-> {"AttributeError"}, val |-> NoVal]

\* ReturnMetrics.__getattr__ (reached for names not defined on the class
\* or the instance).
GetAttrOp(tab, name) ==
    IF name \in _proxy
    THEN [errs |-> {}, val |-> FrameAttr(tab, name)]
    ELSE IF name \in ReprPrefixed /\ name \in FrameAttrs
    THEN [errs |-> {}, val |-> FrameAttr(tab, name)]
    ELSE [errs |-> {"AttributeError"}, val |-> NoVal]

---------------------------------------------------------------------------
(* Inputs of the runs *)

\* Column names a caller passes besides each method's default.
CustomNames == {"x"}
\* Quantiles: the default 0.05, and 0.5.
QSet == {<<1, 20>>, <<1, 2>>}
DefaultQ == <<1, 20>>
\* Risk-free rates, in units of 1/Scale.
RfSet == {0}
DataTypes == {"returns", "prices"}

\* Two input tables of two assets: one on a datetime index, and one on an
\* integer index 0..n-1 whose first asset never falls.
Dated ==
    [idx |-> "label", names |-> <<"a", "b">>,
     series |-> [a |-> <<1, -1, 1>>, b |-> <<0, -1, -1>>]]
Numbered ==
    [idx |-> "position", names |-> <<"a", "b">>,
     series |-> [a |-> <<1, 0, 1>>, b |-> <<0, -1, 1>>]]
DataSet == {Dated, Numbered}
AnnSet == {1, 12}

\* A table the caller built, used as a seed.
UserSeed ==
    [rows |-> <<"a", "b">>,
     cols |-> << [name |-> "seeded", val |-> [a |-> Q(1, 1), b |-> Q(2, 1)]] >>]

\* What a caller writes into a table it holds.
Poison == [a |-> Q(-999, 1), b |-> Q(-999, 1)]

\* All return series of 1..MaxLen steps, as one-asset tables under either
\* kind of index.
RECURSIVE SeriesOfLen(_)
SeriesOfLen(n) ==
    IF n = 0 THEN {<<>>}
    ELSE {Append(s, r) : s \in SeriesOfLen(n - 1), r \in Returns}
AllSeries == UNION {SeriesOfLen(n) : n \in 1..MaxLen}
SeriesTables ==
    {[idx |-> i, names |-> <<"a">>, series |-> [a |-> s]] :
        i \in {"label", "position"}, s \in AllSeries}

---------------------------------------------------------------------------
(* State *)

NoOp ==
    [op |-> "init", recv |-> 0, ret |-> 0, err |-> "", name |-> "",
     q |-> <<0, 1>>, details |-> FALSE, dtype |-> "", attr |-> "",
     tid |-> 0, val |-> NoVal]

Tab(a) == heap[accs[a].results]
\* Objects the caller holds: accumulators and tables.
Live == Len(accs) + Cardinality(user)

\* Writing contents at a table id: a new object extends the heap.
Store(h, tid, contents) ==
    IF tid > Len(h) THEN Append(h, contents) ELSE [h EXCEPT ![tid] = contents]

\* The caller holds one table of its own and has constructed nothing.
Init ==
    /\ heap = <<UserSeed>>
    /\ accs = <<>>
    /\ user = {1}
    /\ last = NoOp

\* An __init__ that keeps the seed itself.
ResultsRefSeed(seed, fresh) == IF seed # 0 THEN seed ELSE fresh

\* __init__: which object the instance's results refer to: always a new
\* one (the seed's copy, or a new empty table).
ResultsRef(seed, fresh) == fresh

\* An instance: data, annualization, results and _index_type are its
\* attributes.  History kept for the properties: parent is the instance a
\* statistic call derived it from (0: constructed by the caller), seed the
\* table it was constructed from (0: none), out the column names the call
\* that derived it wrote.
NewAcc(d, ann, rid, parent, seed, out) ==
    [data |-> d, annualization |-> ann, results |-> rid,
     index_type |-> d.idx, parent |-> parent, seed |-> seed, out |-> out]

\* ReturnMetrics(data, annualization, results=seed); seed = 0 is None.
Construct(d, ann, seed) ==
    LET rid == ResultsRef(seed, Len(heap) + 1)
    IN  /\ Live < MaxObjs
        /\ heap' = Store(heap, rid,
                         InitResults(d, seed # 0, IF seed # 0 THEN heap[seed]
                                                  ELSE EmptyFrame(d)))
        /\ accs' = Append(accs, NewAcc(d, ann, rid, 0, seed, {}))
        /\ last' = [NoOp EXCEPT !.op = "construct", !.ret = Len(accs) + 1,
                                !.tid = seed]
        /\ UNCHANGED user

\* The state after construction over one input table.
Constructed(d, ann) ==
    /\ heap = <<InitResults(d, FALSE, EmptyFrame(d))>>
    /\ accs = <<NewAcc(d, ann, 1, 0, 0, {})>>
    /\ user = {}
    /\ last = [NoOp EXCEPT !.op = "construct", !.ret = 1]

\* The end of a statistic call on accumulator a: a new instance over the
\* same data and factor holding tab, or one of the exceptions errs.  A
\* call that returns needs room for the instance it returns.
Call(a, errs, tab, rec, out) ==
    IF errs = {}
    THEN /\ Live < MaxObjs
         /\ heap' = Append(heap, tab)
         /\ accs' = Append(accs, NewAcc(accs[a].data, accs[a].annualization,
                                        Len(heap) + 1, a, 0, out))
         /\ last' = [rec EXCEPT !.recv = a, !.ret = Len(accs) + 1]
         /\ UNCHANGED user
    ELSE /\ \E e \in errs : last' = [rec EXCEPT !.recv = a, !.err = e]
         /\ UNCHANGED <<heap, accs, user>>

V(a) == View(accs[a], Tab(a))

Mean(a, name) ==
    Call(a, NoErrs, MeanOp(V(a), name),
         [NoOp EXCEPT !.op = "mean", !.name = name], {name})

Std(a, name) ==
    Call(a, NoErrs, StdOp(V(a), name),
         [NoOp EXCEPT !.op = "std", !.name = name], {name})

Skew(a, name) ==
    Call(a, NoErrs, SkewOp(V(a), name),
         [NoOp EXCEPT !.op = "skew", !.name = name], {name})

Kurtosis(a, name) ==
    Call(a, NoErrs, KurtosisOp(V(a), name),
         [NoOp EXCEPT !.op = "kurtosis", !.name = name], {name})

VaR(a, q, name) ==
    Call(a, NoErrs, VaROp(V(a), q, name),
         [NoOp EXCEPT !.op = "VaR", !.name = name, !.q = q], {name})

CVaR(a, q, name) ==
    Call(a, CVaRErrs(V(a), q), CVaROp(V(a), q, name),
         [NoOp EXCEPT !.op = "CVaR", !.name = name, !.q = q], {name})

Sharpe(a, rf, name) ==
    Call(a, NoErrs, SharpeOp(V(a), rf, name),
         [NoOp EXCEPT !.op = "sharpe", !.name = name], {name})

MaxDrawdown(a, name, details, data_type) ==
    Call(a, MaxDrawdownErrs(V(a), details, data_type),
         MaxDrawdownOp(V(a), name, details, data_type),
         [NoOp EXCEPT !.op = "max_drawdown", !.name = name,
                      !.details = details, !.dtype = data_type],
         OutNames(name, details))

BasicStats(a) ==
    Call(a, NoErrs, BasicStatsOp(V(a)), [NoOp EXCEPT !.op = "basic_stats"],
         {"mean", "std", "sharpe"})

TailRisk(a, q) ==
    Call(a, TailRiskErrs(V(a), q), TailRiskOp(V(a), q),
         [NoOp EXCEPT !.op = "tail_risk", !.q = q], {"VaR", "CVaR"})

\* df: which object the property hands out: a new one.
DfRef(results, fresh) == fresh

\* The df property: a deep copy of the results, now held by the caller.
Df(a) ==
    LET tid == DfRef(accs[a].results, Len(heap) + 1)
    IN  /\ Live < MaxObjs
        /\ heap' = Store(heap, tid, DeepCopy(Tab(a)))
        /\ user' = user \cup {tid}
        /\ last' = [NoOp EXCEPT !.op = "df", !.recv = a, !.tid = tid]
        /\ UNCHANGED accs

\* getattr(acc, name) for a name __getattr__ is reached for.
GetAttr(a, name) ==
    LET r == GetAttrOp(Tab(a), name)
    IN  /\ last' = [NoOp EXCEPT !.op = "getattr", !.recv = a, !.attr = name,
                                !.val = r.val,
                                !.err = IF r.errs = {} THEN ""
                                        ELSE CHOOSE e \in r.errs : TRUE]
        /\ UNCHANGED <<heap, accs, user>>

\* The caller changes in place a table it can reach: one it holds (a = 0),
\* or the results attribute of accumulator a: it overwrites or adds the
\* column "mean".
Mutate(a, t) ==
    /\ IF a = 0 THEN t \in user ELSE t = accs[a].results
    /\ heap' = [heap EXCEPT ![t] = SetItem(@, "mean", Poison)]
    /\ last' = [NoOp EXCEPT !.op = "mutate", !.recv = a, !.tid = t]
    /\ UNCHANGED <<accs, user>>

Names(default) == {default} \cup CustomNames
AccIds == 1..Len(accs)

---------------------------------------------------------------------------
(* Specifications.  Every run is a run of Next; the scenarios below are the
   parts of it the properties are checked on. *)

\* Every statistic method, under its default column name.
NextMethods ==
    \/ \E d \in DataSet, ann \in AnnSet : Construct(d, ann, 0)
    \/ \E a \in AccIds : Mean(a, "mean")
    \/ \E a \in AccIds : Std(a, "std")
    \/ \E a \in AccIds : Skew(a, "skew")
    \/ \E a \in AccIds : Kurtosis(a, "kurtosis")
    \/ \E a \in AccIds : VaR(a, DefaultQ, "VaR")
    \/ \E a \in AccIds : CVaR(a, DefaultQ, "CVaR")
    \/ \E a \in AccIds, rf \in RfSet : Sharpe(a, rf, "sharpe")
    \/ \E a \in AccIds, details \in BOOLEAN :
          MaxDrawdown(a, "max_drawdown", details, "returns")
    \/ \E a \in AccIds : BasicStats(a)
    \/ \E a \in AccIds : TailRisk(a, DefaultQ)

\* Chains of calls that choose their column names, from one accumulator
\* constructed over the caller's seed.
NextNames ==
    \/ accs = <<>> /\ Construct(Dated, 12, 1)
    \/ \E a \in AccIds, name \in Names("mean") : Mean(a, name)
    \/ \E a \in AccIds, name \in Names("std") : Std(a, name)
    \/ \E a \in AccIds, name \in Names("max_drawdown"), details \in BOOLEAN :
          MaxDrawdown(a, name, details, "returns")

\* max_drawdown under every argument, on either input table.
NextPrices ==
    \/ \E d \in DataSet : accs = <<>> /\ Construct(d, 12, 0)
    \/ \E a \in AccIds : Mean(a, "mean")
    \/ \E a \in AccIds, name \in Names("max_drawdown"), details \in BOOLEAN,
          data_type \in DataTypes : MaxDrawdown(a, name, details, data_type)

\* Attribute access on accumulators with different result tables.
NextProxy ==
    \/ accs = <<>> /\ Construct(Dated, 12, 0)
    \/ \E a \in AccIds : Mean(a, "mean")
    \/ \E a \in AccIds : MaxDrawdown(a, "max_drawdown", TRUE, "returns")
    \/ \E a \in AccIds, name \in AttrNames : GetAttr(a, name)

\* Seeds, exports and in-place changes by the caller.
NextAlias ==
    \/ \E seed \in 0..Len(heap) : Construct(Dated, 12, seed)
    \/ \E a \in AccIds : Mean(a, "mean")
    \/ \E a \in AccIds : Df(a)
    \/ \E a \in 0..Len(accs), t \in 1..Len(heap) : Mutate(a, t)

\* One max_drawdown call on an accumulator over any series.
NextDrawdown ==
    \E details \in BOOLEAN :
        Len(accs) = 1 /\ MaxDrawdown(1, "max_drawdown", details, "returns")

\* One tail-risk call on an accumulator over any series.
NextTail ==
    \/ \E q \in QSet : Len(accs) = 1 /\ VaR(1, q, "VaR")
    \/ \E q \in QSet : Len(accs) = 1 /\ CVaR(1, q, "CVaR")
    \/ \E q \in QSet : Len(accs) = 1 /\ TailRisk(1, q)

InitSeries == \E d \in SeriesTables : Constructed(d, 1)

Next ==
    \/ NextMethods
    \/ NextNames
    \/ NextPrices
    \/ NextProxy
    \/ NextAlias
    \/ NextDrawdown
    \/ NextTail

Spec == Init /\ [][NextMethods]_vars
SpecNames == Init /\ [][NextNames]_vars
SpecPrices == Init /\ [][NextPrices]_vars
SpecProxy == Init /\ [][NextProxy]_vars
SpecAlias == Init /\ [][NextAlias]_vars
SpecDrawdown == InitSeries /\ [][NextDrawdown]_vars
SpecTail == InitSeries /\ [][NextTail]_vars
SpecAll == Init /\ [][Next]_vars

---------------------------------------------------------------------------
(* Properties *)

StatOps == {"mean", "std", "skew", "kurtosis", "VaR", "CVaR", "sharpe",
            "max_drawdown", "basic_stats", "tail_risk"}

\* a is the instance b was derived from by one or more statistic calls.
RECURSIVE IsAncestor(_, _)
IsAncestor(a, b) ==
    /\ accs[b].parent # 0
    /\ \/ accs[b].parent = a
       \/ IsAncestor(a, accs[b].parent)

\* The column names written by the calls that led from a to b.
RECURSIVE WrittenSince(_, _)
WrittenSince(a, b) ==
    IF b = a THEN {} ELSE accs[b].out \cup WrittenSince(a, accs[b].parent)

\* C1: every statistic method (max_drawdown on returns), called on any
\* accumulator, leaves the receiver's result table unchanged and returns an
\* instance distinct from the receiver.
C1_NonMutation ==
    [][ (last'.op \in StatOps /\ last'.dtype # "prices") =>
           /\ heap'[accs[last'.recv].results] = heap[accs[last'.recv].results]
           /\ last'.ret # 0
           /\ last'.ret # last'.recv ]_vars

\* The part of C1 that does not depend on the call returning: no statistic
\* call, returning or raising, changes any existing table or instance, and
\* an instance it returns is a new one holding a new table.
FrameOfCalls ==
    [][ last'.op \in StatOps =>
           /\ \A t \in 1..Len(heap) : heap'[t] = heap[t]
           /\ \A a \in 1..Len(accs) : accs'[a] = accs[a]
           /\ last'.ret # 0 =>
                 /\ last'.ret = Len(accs) + 1
                 /\ accs'[last'.ret].results = Len(heap) + 1
                 /\ accs'[last'.ret].data = accs[last'.recv].data
                 /\ accs'[last'.ret].annualization
                        = accs[last'.recv].annualization ]_vars

\* C2 as stated: every column of an ancestor appears in the derived
\* instance's table with unchanged values.
C2_AllColumnsUnchanged ==
    \A a \in AccIds, b \in AccIds :
        IsAncestor(a, b) =>
            \A i \in 1..Len(Tab(a).cols) :
                /\ Tab(a).cols[i].name \in ColNames(Tab(b))
                /\ Col(Tab(b), Tab(a).cols[i].name) = Tab(a).cols[i].val

\* C2, amended: the derived instance's table keeps every column of the
\* ancestor's at its position and never has fewer columns; a column's
\* values are unchanged unless a call in between wrote that name.
C2_Superset ==
    \A a \in AccIds, b \in AccIds :
        IsAncestor(a, b) =>
            /\ Len(Tab(b).cols) >= Len(Tab(a).cols)
            /\ \A i \in 1..Len(Tab(a).cols) :
                  /\ Tab(b).cols[i].name = Tab(a).cols[i].name
                  /\ Tab(a).cols[i].name \notin WrittenSince(a, b)
                        => Tab(b).cols[i].val = Tab(a).cols[i].val

\* Two calls apart, a carried-over column and columns added since.
C2_Witness ==
    \E a \in AccIds, b \in AccIds :
        /\ IsAncestor(a, b)
        /\ accs[b].parent # a
        /\ \E i \in 1..Len(Tab(a).cols) :
              Tab(a).cols[i].name \notin WrittenSince(a, b)
        /\ Len(Tab(b).cols) > Len(Tab(a).cols) + 1

\* The column a call computes under its name.
ExpectedCol(A, op) ==
    IF op = "mean"
    THEN [c \in Assets(A.data) |-> MeanCol(A.data.series[c], A.annualization)]
    ELSE IF op = "std"
    THEN [c \in Assets(A.data) |-> StdCol(A.data.series[c], A.annualization)]
    ELSE [c \in Assets(A.data) |-> Details(A.data.series[c], A.data.idx).min]

\* The last call wrote a name its receiver's table already had.
NameTaken ==
    /\ last.op \in {"mean", "std", "max_drawdown"}
    /\ last.name \in ColNames(Tab(last.recv))

C4_PricesRejected ==
    [][ (last'.op = "max_drawdown" /\ last'.dtype = "prices") =>
           /\ last'.err = "NotImplementedError"
           /\ last'.ret = 0
           /\ accs' = accs
           /\ heap' = heap
           /\ user' = user ]_vars

\* A prices call with details on the table whose details cannot be
\* computed, under a chosen name.
C4_Witness ==
    /\ last.op = "max_drawdown"
    /\ last.dtype = "prices"
    /\ last.details
    /\ last.name = "x"
    /\ last.err = "NotImplementedError"
    /\ accs[last.recv].data = Numbered

C6_NoAliasing ==
    [][ /\ last'.op = "mutate" =>
              \A b \in AccIds \ {last'.recv} :
                  heap'[accs[b].results] = heap[accs[b].results]
        /\ (last'.op = "construct" /\ last'.tid # 0) =>
              heap'[last'.tid] = heap[last'.tid]
        /\ last'.op = "df" =>
              \A t \in 1..Len(heap) : heap'[t] = heap[t] ]_vars

\* The caller changed the seed of an accumulator after constructing it, and
\* the accumulator's table is not the changed one.
C6_Witness ==
    /\ last.op = "mutate"
    /\ last.recv = 0
    /\ \E b \in AccIds :
          /\ accs[b].seed = last.tid
          /\ Tab(b) # heap[last.tid]
          /\ Tab(b) = UserSeed

\* The last call was a max_drawdown that returned.
DrawdownReturned == last.op = "max_drawdown" /\ last.ret # 0

\* The return series of asset a the last call worked on, and its wealth.
SeriesA == accs[last.recv].data.series["a"]
WealthA == Cumprod(SeriesA)

\* What the last call stored for asset a, in the column of its name and in
\* the date columns; a stored label as a position (0: missing).
Stored(suffix) == Col(Tab(last.ret), Suffixed(last.name, suffix))["a"]
PosOf(v) == IF v.tag = "date" THEN v.num + 1 ELSE 0

NonPositive(v) == v.tag = "num" /\ v.num <= 0
AllNonPositive(dd) == \A t \in 1..Len(dd) : NonPositive(dd[t])

\* stored is the minimum of the drawdowns dd, and all of them are <= 0.
NonPositiveMin(dd, stored) ==
    /\ AllNonPositive(dd)
    /\ NonPositive(stored)
    /\ \A t \in 1..Len(dd) : LeqQ(stored, dd[t])
    /\ \E t \in 1..Len(dd) : stored = dd[t]

DrawdownOf(c) == Drawdown(c, Cummax(c))

\* C7 as stated: for any return series, the drawdown at every step is <= 0
\* and so is the reported max_drawdown.
C7_AlwaysNonPositive ==
    DrawdownReturned =>
        /\ AllNonPositive(DrawdownOf(WealthA))
        /\ NonPositive(Stored(""))

\* C7, amended: for any return series whose first return is greater than
\* -1 (so that the running peak is positive), the drawdown at every step is
\* <= 0, the reported max_drawdown is their minimum and is <= 0.
C7_NonPositive ==
    (DrawdownReturned /\ SeriesA[1] > -Scale) =>
        NonPositiveMin(DrawdownOf(WealthA), Stored(""))

\* A series that rises, then falls below its peak: a negative drawdown is
\* reported.
C7_Witness ==
    /\ DrawdownReturned
    /\ Len(SeriesA) >= 3
    /\ SeriesA[1] > 0
    /\ \E t \in 2..Len(SeriesA) : SeriesA[t] < -Scale
    /\ Stored("").tag = "num"
    /\ Stored("").num < 0

\* t is the first step of minimal drawdown.
FirstMinimal(dd, t) ==
    /\ t \in Valid(dd)
    /\ \A u \in Valid(dd) : LeqQ(dd[t], dd[u])
    /\ \A u \in Valid(dd) : u < t => ~LeqQ(dd[u], dd[t])

\* The last and the first step at or before the trough at which wealth is
\* at the running peak, resp. at the running peak's value at the trough.
LastAtPeak(c, p, trough) ==
    CHOOSE t \in 1..trough :
        c[t] = p[t] /\ \A u \in (t + 1)..trough : c[u] # p[u]
FirstAtPeak(c, p, trough) ==
    CHOOSE t \in 1..trough :
        c[t] = p[trough] /\ \A u \in 1..(t - 1) : c[u] # p[trough]

C10_TailOrdered ==
    (/\ last.op \in {"CVaR", "tail_risk"}
     /\ \E t \in 1..Len(SeriesA) :
           LeqQ(Q(SeriesA[t], Scale), QuantileCol(SeriesA, last.q))) =>
        /\ last.ret # 0
        /\ "CVaR" \in ColNames(Tab(last.ret))
        /\ Col(Tab(last.ret), "CVaR")["a"].tag = "num"
        /\ LeqQ(Col(Tab(last.ret), "CVaR")["a"], QuantileCol(SeriesA, last.q))
        /\ last.op = "tail_risk" =>
              /\ "VaR" \in ColNames(Tab(last.ret))
              /\ Col(Tab(last.ret), "VaR")["a"] = QuantileCol(SeriesA, last.q)

\* What VaR alone stores: the q-quantile, which some return does not
\* exceed.
VaRStored ==
    (last.op = "VaR" /\ last.ret # 0) =>
        /\ Col(Tab(last.ret), "VaR")["a"] = QuantileCol(SeriesA, last.q)
        /\ \E t \in 1..Len(SeriesA) :
              LeqQ(Q(SeriesA[t], Scale), QuantileCol(SeriesA, last.q))

=============================================================================
